---- MODULE Spec2Model ----
(***************************************************************************)
(* Model of name_validator.py: normalize_name (a pure function on text),   *)
(* PdfNameExtractor.extract_names (the page loop building the Name Set),   *)
(* ExcelNameValidator.validate (the roster table and its flag column) and  *)
(* main (the exit status).                                                *)
(*                                                                         *)
(* A text is a sequence of characters; a character is a one-symbol string, *)
(* with "e_acute" standing for U+00E9 and "copyright" for U+00A9.          *)
(***************************************************************************)
EXTENDS Integers, Sequences, FiniteSets, TLC

\* ------------------------------------------------------------------ bounds
MaxLen == 4
MaxPages == 2
MaxRows == 2

\* -------------------------------------------------------------- characters
AsciiLower == {"a", "c", "e", "n"}
AsciiUpper == {"A", "C", "E", "N"}

\* The characters input texts are drawn from: letters of both cases, an
\* accented letter, a digit, punctuation, whitespace and a symbol.
InputChars == {"a", "N", "e_acute", "7", "-", " ", "\t", "copyright"}

IsAsciiLetter(c) == c \in AsciiLower \cup AsciiUpper

\* Python's str.isalpha on one character: Unicode letters only.
IsAlpha(c) == IsAsciiLetter(c) \/ c = "e_acute"

\* What \s matches and what str.strip() removes.
IsSpace(c) == c \in {" ", "\t", "\n"}

\* str.upper on an ASCII character.
Upper(c) ==
    CASE c = "a" -> "A"
      [] c = "c" -> "C"
      [] c = "e" -> "E"
      [] c = "n" -> "N"
      [] OTHER -> c

\* unidecode on one character: ASCII is kept, U+00E9 becomes "e" and
\* U+00A9 becomes the three characters "(c)".
UnidecodeChar(c) ==
    CASE c = "e_acute" -> <<"e">>
      [] c = "copyright" -> <<"(", "c", ")">>
      [] OTHER -> <<c>>

RECURSIVE Unidecode(_)
Unidecode(s) ==
    IF s = <<>> THEN <<>> ELSE UnidecodeChar(Head(s)) \o Unidecode(Tail(s))

\* re.sub(r"[^A-Za-z\s]", " ", s): each other character becomes one space.
SubNonLetters(s) ==
    [k \in 1..Len(s) |-> IF IsAsciiLetter(s[k]) \/ IsSpace(s[k]) THEN s[k] ELSE " "]

\* re.sub(r"\s+", " ", s): each maximal run of whitespace becomes one space.
RECURSIVE SubSpaceRuns(_)
SubSpaceRuns(s) ==
    IF s = <<>> THEN <<>>
    ELSE IF IsSpace(Head(s))
         THEN IF Len(s) > 1 /\ IsSpace(s[2])
              THEN SubSpaceRuns(Tail(s))
              ELSE <<" ">> \o SubSpaceRuns(Tail(s))
         ELSE <<Head(s)>> \o SubSpaceRuns(Tail(s))

RECURSIVE LStrip(_)
LStrip(s) == IF s # <<>> /\ IsSpace(Head(s)) THEN LStrip(Tail(s)) ELSE s

RECURSIVE RStrip(_)
RStrip(s) ==
    IF s # <<>> /\ IsSpace(s[Len(s)]) THEN RStrip(SubSeq(s, 1, Len(s) - 1)) ELSE s

\* str.strip()
Strip(s) == RStrip(LStrip(s))

\* str.upper()
UpperStr(s) == [k \in 1..Len(s) |-> Upper(s[k])]

\* The mutant of normalize_name with lines 87 and 88 exchanged: whitespace
\* is collapsed before the non-letters are replaced.
normalize_name_collapse_first(name) ==
    UpperStr(Strip(SubNonLetters(SubSpaceRuns(Unidecode(name)))))

\* The mutant of normalize_name without the .strip() of line 88.
normalize_name_no_strip(name) ==
    UpperStr(SubSpaceRuns(SubNonLetters(Unidecode(name))))

normalize_name(name) ==
    LET ascii_txt == Unidecode(name)
        clean_txt == SubNonLetters(ascii_txt)
        collapsed == Strip(SubSpaceRuns(clean_txt))
    IN  UpperStr(collapsed)

\* str.split(): the maximal runs of non-whitespace characters.
RECURSIVE Split(_)
Split(s) ==
    LET t == LStrip(s)
        RECURSIVE WordLen(_)
        WordLen(u) == IF u = <<>> \/ IsSpace(Head(u)) THEN 0 ELSE 1 + WordLen(Tail(u))
    IN  IF t = <<>> THEN <<>>
        ELSE <<SubSeq(t, 1, WordLen(t))>> \o Split(SubSeq(t, WordLen(t) + 1, Len(t)))

\* str.splitlines() on a text whose only line boundary is "\n": a final
\* newline ends the last line and opens no empty one.
RECURSIVE SplitLines(_)
SplitLines(text) ==
    LET RECURSIVE LineLen(_)
        LineLen(u) == IF u = <<>> \/ Head(u) = "\n" THEN 0 ELSE 1 + LineLen(Tail(u))
        n == LineLen(text)
    IN  IF text = <<>> THEN <<>>
        ELSE <<SubSeq(text, 1, n)>> \o SplitLines(SubSeq(text, n + 2, Len(text)))

Range(f) == {f[k] : k \in DOMAIN f}

\* ------------------------------------------------------ project constants
NAME_COLUMN == "Nombre Completo"
TMP_COLUMN == "_NombreNormalizado"
FLAG_COLUMN == "Existe en SUA"

\* ----------------------------------------------------------- extract_names
\* Lines 128-132: the normalized lines of one page's text, of the lines
\* that are not blank and hold at least one alphabetic character.
PageNames(text) ==
    {normalize_name(line) :
        line \in {l \in Range(SplitLines(text)) :
                    Strip(l) # <<>> /\ \E k \in 1..Len(l) : IsAlpha(l[k])}}

\* The mutant of TwoTokenNames that keeps every non-empty name.
TwoTokenNames_one_token(page_names) == {n \in page_names : Len(Split(n)) >= 1}

\* The mutant of TwoTokenNames without the filter: names.update(page_names).
TwoTokenNames_unfiltered(page_names) == page_names

\* Line 133: the names of a page that enter the Name Set.
TwoTokenNames(page_names) == {n \in page_names : Len(Split(n)) >= 2}

\* The mutant of AfterOcrFailure that leaves the page loop (break).
AfterOcrFailure_break(page, npages) == npages + 1

\* Lines 124-126: a TesseractError is logged and the loop continues with
\* the next page.
AfterOcrFailure(page, npages) == page + 1

\* ---------------------------------------------------------------- validate
\* A cell of the table: a text, a boolean or a missing value (NaN).
TextCell(s) == [kind |-> "text", text |-> s, flag |-> FALSE]
BoolCell(b) == [kind |-> "bool", text |-> <<>>, flag |-> b]
NaNCell == [kind |-> "nan", text |-> <<>>, flag |-> FALSE]

\* str(cell), as .astype(str) applies it: NaN becomes "nan".
AsStr(cell) ==
    CASE cell.kind = "nan" -> <<"n", "a", "n">>
      [] OTHER -> cell.text

\* A DataFrame: its column labels in order and each column's cells.
EmptyFrame == [columns |-> <<>>, data |-> <<>>, nrows |-> 0]

\* df[col] = series: an existing column is overwritten in place, a new one
\* is appended as the last column.
SetColumn(df, col, series) ==
    [columns |-> IF col \in Range(df.columns) THEN df.columns
                 ELSE Append(df.columns, col),
     data |-> [c \in DOMAIN df.data \cup {col} |->
                  IF c = col THEN series ELSE df.data[c]],
     nrows |-> df.nrows]

\* df.drop(columns=col, inplace=True)
DropColumn(df, col) ==
    [columns |-> SelectSeq(df.columns, LAMBDA c : c # col),
     data |-> [c \in DOMAIN df.data \ {col} |-> df.data[c]],
     nrows |-> df.nrows]

\* The mutant of NormalizedColumn that compares the raw cell text.
NormalizedColumn_raw(df) ==
    [k \in 1..df.nrows |-> TextCell(AsStr(df.data[NAME_COLUMN][k]))]

\* Line 163: df[NAME_COLUMN].astype(str).apply(normalize_name)
NormalizedColumn(df) ==
    [k \in 1..df.nrows |-> TextCell(normalize_name(AsStr(df.data[NAME_COLUMN][k])))]

\* Lines 163-165: the flag column is computed through a temporary column,
\* which is then dropped.
AddFlagColumn(df, pdf_names) ==
    LET df1 == SetColumn(df, TMP_COLUMN, NormalizedColumn(df))
        df2 == SetColumn(df1, FLAG_COLUMN,
                   [k \in 1..df1.nrows |->
                       BoolCell(df1.data[TMP_COLUMN][k].text \in pdf_names)])
    IN  DropColumn(df2, TMP_COLUMN)

\* -------------------------------------------------------------------- main
\* Lines 229-234: the exit status main gives an exception.
ExitStatus(exc_type) ==
    IF exc_type \in {"PdfExtractionError", "FileNotFoundError", "KeyError"}
    THEN 1 ELSE 2

\* str.lower() on a file extension.
LowerExt(ext) ==
    CASE ext = ".PDF" -> ".pdf"
      [] ext = ".XLSX" -> ".xlsx"
      [] OTHER -> ext

\* ------------------------------------------------------------------ inputs
RECURSIVE SeqsUpTo(_, _)
SeqsUpTo(S, n) ==
    IF n = 0 THEN {<<>>}
    ELSE LET shorter == SeqsUpTo(S, n - 1)
         IN  shorter \cup {<<c>> \o s : c \in S, s \in {t \in shorter : Len(t) = n - 1}}

\* The arguments of normalize_name that are checked one by one.
InputTexts == SeqsUpTo(InputChars, MaxLen)

\* The extensions of the file names given on the command line.
PdfArgs == {".pdf", ".PDF", ".txt"}
ExcelArgs == {".xlsx", ".XLSX", ".xls"}

\* The texts the OCR engine returns for a page:
\*   an empty page;
\*   "a N" and "N": a two-word line and a one-word line;
\*   "<e_acute>-a", a blank line and "7-": accent and punctuation, no letters;
\*   "<copyright> <copyright>" and "N" without a final newline.
PageTexts ==
    { <<>>,
      <<"a", " ", "N", "\n", "N", "\n">>,
      <<"e_acute", "-", "a", "\n", " ", "\n", "7", "-", "\n">>,
      <<"copyright", " ", "copyright", "\n", "N">> }

\* The cells of the name column: variants of the PDF's lines in case,
\* accent, punctuation and spacing, a one-word name, a cell without
\* letters and a missing cell.
NameCells ==
    { TextCell(<<"A", "\t", "n">>),
      TextCell(<<"e", "-", "-", "a">>),
      TextCell(<<"N">>),
      TextCell(<<"c", " ", "c">>),
      TextCell(<<"7", "-">>),
      NaNCell }

OtherCells == { TextCell(<<"7">>) }

\* The header rows of the spreadsheets read.
ColumnLayouts ==
    { <<NAME_COLUMN>>,
      <<"Id", NAME_COLUMN>>,
      <<"Id">>,
      <<NAME_COLUMN, TMP_COLUMN>>,
      <<FLAG_COLUMN, NAME_COLUMN>> }

\* The tables pd.read_excel can return: a layout and up to MaxRows rows.
Sheets ==
    UNION { UNION { { [columns |-> cols, data |-> d, nrows |-> n] :
                        d \in { f \in [Range(cols) -> [1..n -> NameCells \cup OtherCells]] :
                                  \A c \in Range(cols) : \A k \in 1..n :
                                      (c = NAME_COLUMN) = (f[c][k] \in NameCells) } } :
                    n \in 0..MaxRows } :
            cols \in ColumnLayouts }

NoException == [type |-> "none", columns |-> <<>>]

\* ------------------------------------------------------------------- state
VARIABLES
    pc,         \* where the run is: main, extract_names, validate, exit
    nimages,    \* extract_names: len(images)
    page,       \* extract_names: the loop index i
    ocr,        \* what the OCR engine returned for the pages read so far
    names,      \* extract_names: the local set names
    pdf_names,  \* main: the Name Set extract_names returned
    sheet,      \* the table read from the input spreadsheet
    df,         \* validate: the DataFrame
    flagged,    \* validate: whether the flag column has been computed
    output,     \* the file at output_path
    exc,        \* the exception being raised, with the columns it lists
    cause,      \* what went wrong in the environment, if anything
    status,     \* the exit status of the process, -1 while it runs
    nIn,        \* normalize_name's argument
    nOut,       \* normalize_name(nIn), once computed
    nOut2,      \* normalize_name(nOut), once computed
    npc         \* "in" -> "once" -> "twice"

nvars == <<nIn, nOut, nOut2, npc>>
pvars == <<pc, nimages, page, ocr, names, pdf_names, sheet, df, flagged, output,
           exc, cause, status>>
vars == <<pvars, nvars>>

NoOutput == [state |-> "absent", table |-> EmptyFrame]

PipelineInit ==
    /\ pc = "main"
    /\ nimages = 0
    /\ page = 0
    /\ ocr = <<>>
    /\ names = {}
    /\ pdf_names = {}
    /\ sheet = EmptyFrame
    /\ df = EmptyFrame
    /\ flagged = FALSE
    /\ output = NoOutput
    /\ exc = NoException
    /\ cause = "none"
    /\ status = -1

\* raise: the exception leaves extract_names or validate and reaches main's
\* except clauses.
Raise(type, columns, why) ==
    /\ exc' = [type |-> type, columns |-> columns]
    /\ cause' = why
    /\ pc' = "except"

\* --------------------------------------------------------------- main (1)
\* Lines 205-215: the two extension checks.
Main_CheckExtensions ==
    /\ pc = "main"
    /\ \E pdf \in PdfArgs, excel \in ExcelArgs :
          IF LowerExt(pdf) # ".pdf" \/ LowerExt(excel) # ".xlsx"
          THEN /\ status' = 1
               /\ cause' = "wrong_extension"
               /\ pc' = "exit"
          ELSE /\ pc' = "extract"
               /\ UNCHANGED <<status, cause>>
    /\ UNCHANGED <<nimages, page, ocr, names, pdf_names, sheet, df, flagged,
                   output, exc, nvars>>

\* ----------------------------------------------------------- extract_names
\* Lines 109-110: the PDF must be a file.
Extract_CheckFile ==
    /\ pc = "extract"
    /\ \E is_file \in BOOLEAN :
          IF is_file
          THEN pc' = "convert" /\ UNCHANGED <<exc, cause>>
          ELSE Raise("PdfExtractionError", <<>>, "pdf_missing")
    /\ UNCHANGED <<nimages, page, ocr, names, pdf_names, sheet, df, flagged,
                   output, status, nvars>>

\* Lines 112-120: convert_from_path, whose errors all become
\* PdfExtractionError, then names = set() and the loop starts at page 1.
Extract_Convert ==
    /\ pc = "convert"
    /\ \/ \E n \in 0..MaxPages :
             /\ nimages' = n
             /\ page' = 1
             /\ names' = {}
             /\ pc' = "ocr"
             /\ UNCHANGED <<exc, cause>>
       \/ /\ Raise("PdfExtractionError", <<>>, "rasterizer_missing")
          /\ UNCHANGED <<nimages, page, names>>
       \/ /\ Raise("PdfExtractionError", <<>>, "pdf_unreadable")
          /\ UNCHANGED <<nimages, page, names>>
    /\ UNCHANGED <<ocr, pdf_names, sheet, df, flagged, output, status, nvars>>

\* Lines 121-134: one iteration of the page loop. image_to_string returns
\* the page's text, raises TesseractError (the engine ran and failed), or
\* raises TesseractNotFoundError (the binary cannot be started, so on the
\* first call), which is an OSError and no TesseractError.
Extract_OcrPage ==
    /\ pc = "ocr"
    /\ page <= nimages
    /\ \/ \E text \in PageTexts :
             /\ ocr' = Append(ocr, [ok |-> TRUE, text |-> text])
             /\ names' = names \cup TwoTokenNames(PageNames(text))
             /\ page' = page + 1
             /\ UNCHANGED <<pc, exc, cause>>
       \/ /\ ocr' = Append(ocr, [ok |-> FALSE, text |-> <<>>])
          /\ page' = AfterOcrFailure(page, nimages)
          /\ UNCHANGED <<names, pc, exc, cause>>
       \/ /\ ocr = <<>>
          /\ Raise("TesseractNotFoundError", <<>>, "ocr_engine_missing")
          /\ UNCHANGED <<ocr, names, page>>
    /\ UNCHANGED <<nimages, pdf_names, sheet, df, flagged, output, status, nvars>>

\* Lines 136-137 and 218-222: the loop is over and main receives the set.
Extract_Return ==
    /\ pc = "ocr"
    /\ page > nimages
    /\ pdf_names' = names
    /\ pc' = "validate"
    /\ UNCHANGED <<nimages, page, ocr, names, sheet, df, flagged, output, exc,
                   cause, status, nvars>>

\* ---------------------------------------------------------------- validate
\* Lines 149-150: the spreadsheet must be a file.
Validate_CheckFile ==
    /\ pc = "validate"
    /\ \E is_file \in BOOLEAN :
          IF is_file
          THEN pc' = "read" /\ UNCHANGED <<exc, cause>>
          ELSE Raise("FileNotFoundError", <<>>, "excel_missing")
    /\ UNCHANGED <<nimages, page, ocr, names, pdf_names, sheet, df, flagged,
                   output, status, nvars>>

\* Lines 152-156: pd.read_excel; its exception is logged and raised again.
Validate_Read ==
    /\ pc = "read"
    /\ \/ \E t \in Sheets :
             /\ sheet' = t
             /\ df' = t
             /\ pc' = "column"
             /\ UNCHANGED <<exc, cause>>
       \/ /\ Raise("ValueError", <<>>, "excel_unreadable")
          /\ UNCHANGED <<sheet, df>>
    /\ UNCHANGED <<nimages, page, ocr, names, pdf_names, flagged, output, status,
                   nvars>>

\* The mutant of MissingColumnMessage that lists no column.
MissingColumnMessage_empty(frame) == <<>>

\* Line 160: the columns the KeyError lists, list(df.columns).
MissingColumnMessage(frame) == frame.columns

\* Lines 158-161: without the name column a KeyError is raised.
Validate_CheckColumn ==
    /\ pc = "column"
    /\ IF NAME_COLUMN \notin Range(df.columns)
       THEN Raise("KeyError", MissingColumnMessage(df), "column_missing")
       ELSE pc' = "flag" /\ UNCHANGED <<exc, cause>>
    /\ UNCHANGED <<nimages, page, ocr, names, pdf_names, sheet, df, flagged,
                   output, status, nvars>>

\* Lines 163-167: the flag column, then the output directory.
Validate_Flag ==
    /\ pc = "flag"
    /\ df' = AddFlagColumn(df, pdf_names)
    /\ flagged' = TRUE
    /\ pc' = "write"
    /\ UNCHANGED <<nimages, page, ocr, names, pdf_names, sheet, output, exc,
                   cause, status, nvars>>

\* Lines 169-175: df.to_excel. It writes the whole table, or fails before
\* the file is created (the path is not writable), or fails after the file
\* was opened for writing (the disk fills up) and leaves what was written;
\* the except clause logs and raises again and removes nothing.
Validate_Write ==
    /\ pc = "write"
    /\ \/ /\ output' = [state |-> "complete", table |-> df]
          /\ pc' = "finish"
          /\ UNCHANGED <<exc, cause>>
       \/ /\ Raise("PermissionError", <<>>, "output_unwritable")
          /\ UNCHANGED output
       \/ /\ Raise("OSError", <<>>, "output_write_failed")
          /\ output' = [state |-> "partial", table |-> EmptyFrame]
    /\ UNCHANGED <<nimages, page, ocr, names, pdf_names, sheet, df, flagged,
                   status, nvars>>

\* --------------------------------------------------------------- main (2)
\* Lines 229-234: the except clauses and sys.exit.
Main_Except ==
    /\ pc = "except"
    /\ status' = ExitStatus(exc.type)
    /\ pc' = "exit"
    /\ UNCHANGED <<nimages, page, ocr, names, pdf_names, sheet, df, flagged,
                   output, exc, cause, nvars>>

\* Line 236: main returns and the process ends with status 0.
Main_Return ==
    /\ pc = "finish"
    /\ status' = 0
    /\ pc' = "exit"
    /\ UNCHANGED <<nimages, page, ocr, names, pdf_names, sheet, df, flagged,
                   output, exc, cause, nvars>>

Init ==
    /\ PipelineInit
    /\ nIn = <<>> /\ nOut = <<>> /\ nOut2 = <<>> /\ npc = "idle"

Next ==
    \/ Main_CheckExtensions
    \/ Extract_CheckFile
    \/ Extract_Convert
    \/ Extract_OcrPage
    \/ Extract_Return
    \/ Validate_CheckFile
    \/ Validate_Read
    \/ Validate_CheckColumn
    \/ Validate_Flag
    \/ Validate_Write
    \/ Main_Except
    \/ Main_Return

Spec == Init /\ [][Next]_vars

\* ------------------------------------------- normalize_name on every text
NormInit ==
    /\ PipelineInit
    /\ nIn \in InputTexts
    /\ nOut = <<>>
    /\ nOut2 = <<>>
    /\ npc = "in"

NormalizeOnce ==
    /\ npc = "in"
    /\ nOut' = normalize_name(nIn)
    /\ npc' = "once"
    /\ UNCHANGED <<nIn, nOut2, pvars>>

NormalizeTwice ==
    /\ npc = "once"
    /\ nOut2' = normalize_name(nOut)
    /\ npc' = "twice"
    /\ UNCHANGED <<nIn, nOut, pvars>>

NormNext == NormalizeOnce \/ NormalizeTwice

SpecNorm == NormInit /\ [][NormNext]_vars

\* ------------------------------------------------------------------ claims
ExpectedErrorCauses ==
    {"wrong_extension", "pdf_missing", "excel_missing", "rasterizer_missing",
     "ocr_engine_missing", "column_missing"}

\* C1: a missing or wrongly named input file, a missing rasterizer or OCR
\* engine and a missing name column all end main with status 1, status 2
\* is left to unexpected errors, and a run without error ends with 0.
C1_ExitStatusByCategory ==
    status # -1 =>
        /\ cause \in ExpectedErrorCauses => status = 1
        /\ status = 2 => cause \notin ExpectedErrorCauses \cup {"none"}
        /\ cause = "none" <=> status = 0

\* The lines of a text that extract_names reads as candidate names.
RecognizedLines(text) ==
    {l \in Range(SplitLines(text)) : \E k \in 1..Len(l) : IsAlpha(l[k])}

\* The pages of a history whose OCR succeeded.
OkPages(history) == {k \in 1..Len(history) : history[k].ok}

\* The union, over the pages whose OCR succeeded, of the normalized
\* lines of at least two tokens.
NamesOfOkPages(history) ==
    UNION { {normalize_name(l) : l \in {r \in RecognizedLines(history[k].text) :
                                           Len(Split(normalize_name(r))) >= 2}} :
            k \in OkPages(history) }

\* C2: a page whose OCR fails does not end the loop: inside the loop every
\* earlier page has been read and the set is the union of the qualifying
\* lines of the pages that succeeded, and extract_names returns only after
\* the last page, with that union over all pages.
C2_FailedPageIsSkipped ==
    /\ pc = "ocr" =>
          /\ Len(ocr) = page - 1
          /\ page <= nimages + 1
          /\ names = NamesOfOkPages(ocr)
    /\ pc \in {"validate", "read", "column", "flag", "write", "finish"} =>
          /\ Len(ocr) = nimages
          /\ pdf_names = NamesOfOkPages(ocr)

C2_Witness ==
    /\ pc = "validate"
    /\ Len(ocr) = 2
    /\ ~ocr[1].ok
    /\ ocr[2].ok
    /\ pdf_names # {}

\* Every element of the set is the normalization of a line of a page that
\* was read, and has at least two tokens.
NamesAreTwoTokenLines(set) ==
    \A n \in set :
        /\ Len(Split(n)) >= 2
        /\ \E k \in OkPages(ocr) : \E l \in Range(SplitLines(ocr[k].text)) :
              n = normalize_name(l)

\* C3 as amended: at every point of the loop and after it every element of
\* the Name Set is a normalized line of at least two tokens, and every line
\* of a page that was read which holds an alphabetic character and
\* normalizes to two or more tokens is in the set.
C3_TwoTokenLinesOnly ==
    /\ NamesAreTwoTokenLines(names)
    /\ NamesAreTwoTokenLines(pdf_names)
    /\ \A k \in OkPages(ocr) : \A l \in Range(SplitLines(ocr[k].text)) :
          (/\ \E j \in 1..Len(l) : IsAlpha(l[j])
           /\ Len(Split(normalize_name(l))) >= 2) => normalize_name(l) \in names

\* C3: as above, but every line that normalizes to two or more tokens is
\* in the set, whatever its characters.
C3_EveryTwoTokenLineAdded ==
    /\ NamesAreTwoTokenLines(names)
    /\ NamesAreTwoTokenLines(pdf_names)
    /\ \A k \in OkPages(ocr) : \A l \in Range(SplitLines(ocr[k].text)) :
          Len(Split(normalize_name(l))) >= 2 => normalize_name(l) \in names

C3_Witness ==
    /\ pc = "ocr"
    /\ \E k \in OkPages(ocr) : <<"N">> \in Range(SplitLines(ocr[k].text))
    /\ \E k \in OkPages(ocr) :
          <<"copyright", " ", "copyright">> \in Range(SplitLines(ocr[k].text))
    /\ names = {<<"A", " ", "N">>}

\* C4: normalize_name is idempotent.
C4_Idempotent == npc = "twice" => nOut2 = nOut

C4_Witness ==
    /\ npc = "twice"
    /\ nIn = <<"e_acute", "-", "\t", "a">>
    /\ nOut = <<"E", " ", "A">>

\* A text is in canonical form: upper-case ASCII letters, single spaces
\* between them, no space at either end.
IsCanonical(s) ==
    /\ \A k \in 1..Len(s) : s[k] \in AsciiUpper \cup {" "}
    /\ s # <<>> => s[1] # " " /\ s[Len(s)] # " "
    /\ \A k \in 1..(Len(s) - 1) : ~(s[k] = " " /\ s[k + 1] = " ")

RECURSIVE JoinWords(_)
JoinWords(ws) ==
    IF ws = <<>> THEN <<>>
    ELSE IF Len(ws) = 1 THEN ws[1]
    ELSE ws[1] \o <<" ">> \o JoinWords(Tail(ws))

\* The letters of a text, upper-cased, with each maximal run of other
\* characters between them replaced by one space.
LettersOfAscii(s) ==
    JoinWords(Split([k \in 1..Len(s) |->
                        IF IsAsciiLetter(s[k]) THEN Upper(s[k]) ELSE " "]))

\* The same of a text before transliteration: a letter is an alphabetic
\* character, taken without its accent.
LettersOfInput(s) ==
    JoinWords(Split([k \in 1..Len(s) |->
                        IF s[k] = "e_acute" THEN "E"
                        ELSE IF IsAlpha(s[k]) THEN Upper(s[k]) ELSE " "]))

\* C5 as amended: the result is in canonical form, it is the letters of
\* the transliterated input with each run of other characters between them
\* replaced by one space, and it is empty exactly when the transliterated
\* input holds no letter.
C5_CanonicalOfTransliteration ==
    npc # "in" =>
        /\ IsCanonical(nOut)
        /\ nOut = LettersOfAscii(Unidecode(nIn))
        /\ nOut = <<>> <=> \A c \in Range(Unidecode(nIn)) : ~IsAsciiLetter(c)

\* C5: the result is in canonical form, it is the letters of the input
\* with each run of non-letters between them replaced by one space, and it
\* is empty whenever the input holds no alphabetic character.
C5_CanonicalOfInputLetters ==
    npc # "in" =>
        /\ IsCanonical(nOut)
        /\ nOut = LettersOfInput(nIn)
        /\ (\A c \in Range(nIn) : ~IsAlpha(c)) => nOut = <<>>

C5_Witness ==
    /\ npc = "once"
    /\ nIn = <<" ", "e_acute", "-", "copyright">>
    /\ nOut = <<"E", " ", "C">>

\* The flag the output gives row k, and the name the input gives it.
FlagOf(k) == output.table.data[FLAG_COLUMN][k]
NameOf(k) == normalize_name(AsStr(sheet.data[NAME_COLUMN][k]))

\* C6: in the written table a row's flag is true exactly when the
\* normalized name of the row is in the Name Set, that is, when a line of
\* a page that was read normalizes to the same name of at least two tokens.
C6_FlagIsMembership ==
    output.state = "complete" =>
        /\ DOMAIN output.table.data[FLAG_COLUMN] = 1..sheet.nrows
        /\ \A k \in 1..sheet.nrows :
              /\ FlagOf(k) = BoolCell(NameOf(k) \in pdf_names)
              /\ FlagOf(k).flag <=>
                    /\ Len(Split(NameOf(k))) >= 2
                    /\ \E p \in OkPages(ocr) :
                          \E l \in RecognizedLines(ocr[p].text) :
                              normalize_name(l) = NameOf(k)

C6_Witness ==
    /\ output.state = "complete"
    /\ sheet.nrows = 2
    /\ sheet.data[NAME_COLUMN][1] = TextCell(<<"A", "\t", "n">>)
    /\ sheet.data[NAME_COLUMN][2] = TextCell(<<"e", "-", "-", "a">>)
    /\ FlagOf(1) = BoolCell(TRUE)
    /\ FlagOf(2) = BoolCell(FALSE)

\* C7: the written table has the input's columns, each with its name, its
\* position and its cells, followed by one boolean column.
C7_OriginalColumnsKept ==
    output.state = "complete" =>
        LET n == Len(sheet.columns)
            out == output.table
        IN  /\ Len(out.columns) = n + 1
            /\ \A j \in 1..n :
                  /\ out.columns[j] = sheet.columns[j]
                  /\ out.data[out.columns[j]] = sheet.data[sheet.columns[j]]
            /\ \A k \in 1..out.nrows :
                  out.data[out.columns[Len(out.columns)]][k].kind = "bool"

\* C8: a spreadsheet without the name column ends validate with a KeyError
\* that lists the columns of the spreadsheet, with no flag computed and
\* nothing written; no step past the check is taken without the column.
C8_MissingColumnListsColumns ==
    /\ exc.type = "KeyError" =>
          /\ NAME_COLUMN \notin Range(sheet.columns)
          /\ exc.columns = sheet.columns
          /\ ~flagged
          /\ df = sheet
          /\ output = NoOutput
    /\ (pc \in {"flag", "write", "finish"} \/ flagged \/ output # NoOutput) =>
          NAME_COLUMN \in Range(sheet.columns)

C8_Witness ==
    /\ pc = "exit"
    /\ exc.type = "KeyError"
    /\ exc.columns = <<"Id">>
    /\ sheet.nrows = 2
    /\ status = 1

\* C9: a run that fails leaves nothing at the output path, nothing is
\* written before extraction, loading and the column check succeeded, and
\* a run that ends with status 0 has written the whole flagged table.
C9_NoOutputOnFailure ==
    /\ status \in {1, 2} => output = NoOutput
    /\ output # NoOutput => pc \in {"finish", "except", "exit"} /\ flagged
    /\ status = 0 => output = [state |-> "complete", table |-> df] /\ flagged

\* C10: a row whose name normalizes to fewer than two tokens is flagged
\* false, whatever the pages of the PDF hold.
C10_ShortNameFlaggedFalse ==
    output.state = "complete" =>
        \A k \in 1..sheet.nrows :
            Len(Split(NameOf(k))) < 2 => FlagOf(k) = BoolCell(FALSE)

C10_Witness ==
    /\ output.state = "complete"
    /\ sheet.nrows = 2
    /\ sheet.data[NAME_COLUMN][1] = TextCell(<<"N">>)
    /\ sheet.data[NAME_COLUMN][2] = NaNCell
    /\ \E p \in OkPages(ocr) : <<"N">> \in Range(SplitLines(ocr[p].text))
    /\ pdf_names # {}
    /\ FlagOf(1) = BoolCell(FALSE)
    /\ FlagOf(2) = BoolCell(FALSE)

====
